---- MODULE Spec2Model ----
(***************************************************************************)
(* AgroBank preview front end: the preview session controller (enable and  *)
(* disable route handlers), the three page renderers (article, about,      *)
(* category) with their content blocks, the CMS client (fetchStrapi) and   *)
(* the media and relation normalizer (extractMediaItems, getMediaUrl,      *)
(* withBaseUrl, getEntityAttributes, getRelation).                         *)
(*                                                                         *)
(* One browser session talks to the server.  A request arrives (Receive),  *)
(* its handler runs to completion in one step (EnableGET, DisableGET,      *)
(* BlogArticlePage, AboutPage, CategoryPage) and the response is delivered *)
(* (Deliver).  The preview flag is the draft-mode cookie of the session.   *)
(*                                                                         *)
(* Strings are sequences of one-character strings, so that startsWith,     *)
(* concatenation and URL parsing are computed and not assumed; the static  *)
(* texts of a view and the component names of blocks, which the code only  *)
(* compares for equality, are one-element sequences.                       *)
(***************************************************************************)
EXTENDS Integers, Sequences, FiniteSets, TLC

VARIABLES
    expectedSecret,  \* process.env.PREVIEW_SECRET, fixed for the process lifetime
    isEnabled,       \* draftMode().isEnabled as the session's cookie has it
    req,             \* the request in flight (NoReq when the session is idle)
    res,             \* the response of the handler (NoRes until it has run)
    call,            \* a normalizer call and its result (NoCall when none)
    lastToggle,      \* history: the last enable/disable that answered a redirect
    enabledRun       \* history: an enable redirected and no disable request came since

vars == <<expectedSecret, isEnabled, req, res, call, lastToggle, enabledRun>>

(***************************************************************************)
(* Bounds.                                                                 *)
(***************************************************************************)
\* longest `url` query parameter value the session sends
MaxUrlLen == 3

(***************************************************************************)
(* JavaScript values.                                                      *)
(***************************************************************************)
Null == [t |-> "null"]
Undefined == [t |-> "undefined"]
Str(s) == [t |-> "string", v |-> s]
Arr(s) == [t |-> "array", v |-> s]
Num(n) == [t |-> "number", v |-> n]

\* the property names the modelled payloads use
Keys == {"data", "meta", "attributes", "url", "formats", "large", "medium",
         "name", "title", "blocks", "__component", "body", "file", "files",
         "alternativeText", "caption"}

\* marks a property an object does not carry
Absent == [t |-> "absent"]
Obj(r) == [t |-> "object",
           v |-> [k \in Keys |-> IF k \in DOMAIN r THEN r[k] ELSE Absent]]

\* `k in o`
In(k, o) == o.v[k] # Absent

\* `o.k` for an object o
Prop(o, k) == IF o.v[k] = Absent THEN Undefined ELSE o.v[k]

\* ToBoolean: null, undefined, '' and 0 are falsy; arrays, objects, non-empty
\* strings and other numbers are truthy
Truthy(x) ==
    CASE x.t = "null" -> FALSE
      [] x.t = "undefined" -> FALSE
      [] x.t = "string" -> x.v # <<>>
      [] x.t = "number" -> x.v # 0
      [] OTHER -> TRUE

StartsWith(s, p) == Len(s) >= Len(p) /\ SubSeq(s, 1, Len(p)) = p
Drop(s, n) == SubSeq(s, n + 1, Len(s))

S_slash == <<"/">>
S_draft == <<"d", "r", "a", "f", "t">>
S_published == <<"p", "u", "b", "l", "i", "s", "h", "e", "d">>
S_http == <<"h", "t", "t", "p">>

(***************************************************************************)
(* new URL(input, base), for a base with the http scheme.  The `url`       *)
(* values of the model are drawn from UrlChars, which holds no '?', '#',   *)
(* '@', '.', '[', digit or whitespace: the query, fragment, credentials,   *)
(* dot-segment, IPv6 and IPv4 steps of the parser are never entered and    *)
(* are not modelled.                                                       *)
(***************************************************************************)
UrlChars == {"/", "\\", "a", ":"}

AsciiAlpha == {"a", "b", "c", "d", "e", "f", "g", "h", "i", "j", "k", "l", "m",
               "n", "o", "p", "q", "r", "s", "t", "u", "v", "w", "x", "y", "z"}
AsciiDigit == {"0", "1", "2", "3", "4", "5", "6", "7", "8", "9"}

SpecialSchemes == {<<"f", "t", "p">>, <<"f", "i", "l", "e">>, S_http,
                   <<"h", "t", "t", "p", "s">>, <<"w", "s">>, <<"w", "s", "s">>}

Failure == [valid |-> FALSE]
MkUrl(scheme, host, port, path, query) ==
    [valid |-> TRUE, scheme |-> scheme, host |-> host, port |-> port,
     path |-> path, query |-> query]

\* scheme start state and scheme state: an ASCII alpha, then alphanumerics,
\* '+', '-' or '.', up to a ':'
HasScheme(s) ==
    \E i \in 2..Len(s) :
        /\ s[i] = ":"
        /\ s[1] \in AsciiAlpha
        /\ \A j \in 1..(i - 1) : s[j] \in AsciiAlpha \cup AsciiDigit \cup {"+", "-", "."}
SchemeEnd(s) == CHOOSE i \in 2..Len(s) : s[i] = ":" /\ \A j \in 1..(i - 1) : s[j] # ":"

\* a special URL reads '\' as '/'
Slashes(s, special) ==
    [i \in 1..Len(s) |-> IF special /\ s[i] = "\\" THEN "/" ELSE s[i]]

\* the path of the base without its last segment (shorten), with the slash kept
DirOf(path) ==
    LET last == CHOOSE i \in 1..Len(path) :
                    path[i] = "/" /\ \A j \in (i + 1)..Len(path) : path[j] # "/"
    IN  SubSeq(path, 1, last)

\* authority state: the buffer ends at '/', '?', '#', and at '\' when special
AuthorityEnd(s, special) ==
    LET stops == {i \in 1..Len(s) :
                     s[i] \in {"/", "?", "#"} \/ (special /\ s[i] = "\\")}
    IN  IF stops = {} THEN Len(s) + 1
        ELSE CHOOSE i \in stops : \A j \in stops : i <= j

\* host state, port state and path start state on `s`, the input after "//"
Authority(scheme, s, special) ==
    LET end == AuthorityEnd(s, special)
        buffer == SubSeq(s, 1, end - 1)
        rest == SubSeq(s, end, Len(s))
        colons == {i \in 1..Len(buffer) : buffer[i] = ":"}
        colon == IF colons = {} THEN Len(buffer) + 1
                 ELSE CHOOSE i \in colons : \A j \in colons : i <= j
        host == SubSeq(buffer, 1, colon - 1)
        portText == SubSeq(buffer, colon + 1, Len(buffer))
        path == IF rest = <<>>
                THEN (IF special THEN S_slash ELSE <<>>)
                ELSE S_slash \o Slashes(Drop(rest, 1), special)
    IN  IF host = <<>> /\ (special \/ colons # {})
        THEN Failure                             \* host-missing
        ELSE IF \E i \in 1..Len(portText) : portText[i] \notin AsciiDigit
        THEN Failure                             \* port-invalid
        ELSE IF ~special /\ \E i \in 1..Len(host) : host[i] = "\\"
        THEN Failure                             \* forbidden host code point
        ELSE MkUrl(scheme, Str(host),
                   IF portText = <<>> THEN Null ELSE Str(portText), path, <<>>)

\* special authority ignore slashes state: every leading '/' and '\' is skipped
RECURSIVE IgnoreSlashes(_)
IgnoreSlashes(s) ==
    IF s # <<>> /\ Head(s) \in {"/", "\\"} THEN IgnoreSlashes(Tail(s)) ELSE s

\* relative state and relative slash state, the scheme being the base's
Relative(s, base) ==
    IF s = <<>> THEN base
    ELSE IF Head(s) \in {"/", "\\"}
    THEN IF Len(s) >= 2 /\ s[2] \in {"/", "\\"}
         THEN Authority(base.scheme, IgnoreSlashes(Drop(s, 2)), TRUE)
         ELSE MkUrl(base.scheme, base.host, base.port,
                    S_slash \o Slashes(Drop(s, 1), TRUE), <<>>)
    ELSE MkUrl(base.scheme, base.host, base.port,
               DirOf(base.path) \o Slashes(s, TRUE), <<>>)

ParseUrl(input, base) ==
    IF HasScheme(input)
    THEN LET end == SchemeEnd(input)
             scheme == SubSeq(input, 1, end - 1)
             rest == Drop(input, end)
         IN  IF scheme \in SpecialSchemes
             THEN IF scheme = base.scheme /\ ~StartsWith(rest, <<"/", "/">>)
                  THEN Relative(rest, base)
                  ELSE Authority(scheme, IgnoreSlashes(rest), TRUE)
             ELSE IF StartsWith(rest, <<"/", "/">>)
             THEN Authority(scheme, Drop(rest, 2), FALSE)
             ELSE MkUrl(scheme, Null, Null, rest, <<>>)
    ELSE Relative(input, base)

\* the origin of a URL: a (scheme, host, port) tuple for a special scheme, and
\* an opaque origin, equal to no other, for any other scheme
SameOrigin(u, w) ==
    /\ u.valid /\ w.valid
    /\ u.scheme \in SpecialSchemes
    /\ u.scheme = w.scheme /\ u.host = w.host /\ u.port = w.port

\* URLSearchParams.set: the first pair of that name takes the value, the
\* others of that name go; a new name is appended
RECURSIVE WithoutName(_, _)
WithoutName(query, name) ==
    IF query = <<>> THEN <<>>
    ELSE IF Head(query)[1] = name THEN WithoutName(Tail(query), name)
    ELSE <<Head(query)>> \o WithoutName(Tail(query), name)

SearchParamsSet(query, name, value) ==
    LET hits == {i \in 1..Len(query) : query[i][1] = name}
    IN  IF hits = {} THEN Append(query, <<name, value>>)
        ELSE LET first == CHOOSE i \in hits : \A j \in hits : i <= j
             IN  SubSeq(query, 1, first - 1) \o <<(<<name, value>>)>>
                   \o WithoutName(SubSeq(query, first + 1, Len(query)), name)

(***************************************************************************)
(* Requests and responses.                                                 *)
(***************************************************************************)
NoReq == [route |-> "none"]
NoRes == [kind |-> "none"]
NoCall == [fn |-> "none"]

\* the host the session reaches the front end at
AppHost == <<"a", "p", "p">>

EnablePath == <<"/", "a", "p", "i", "/", "p", "r", "e", "v", "i", "e", "w", "/",
                "e", "n", "a", "b", "l", "e">>
DisablePath == <<"/", "a", "p", "i", "/", "p", "r", "e", "v", "i", "e", "w", "/",
                 "d", "i", "s", "a", "b", "l", "e">>

\* the query of a request: each parameter name with the values given for it,
\* in order (none, one, or a repeated parameter)
QueryPairs(query, names) ==
    LET RECURSIVE Pairs(_)
        Pairs(ns) ==
            IF ns = <<>> THEN <<>>
            ELSE [i \in 1..Len(query[Head(ns)]) |-> <<Head(ns), query[Head(ns)][i]>>]
                   \o Pairs(Tail(ns))
    IN  Pairs(names)

\* request.url
RequestUrl(path, query, names) ==
    MkUrl(S_http, Str(AppHost), Null, path, QueryPairs(query, names))

\* searchParams.get(name): the first value, or null
SearchParamsGet(query, name) ==
    IF query[name] = <<>> THEN Null ELSE Str(Head(query[name]))

\* NextResponse.json(body, {status})
JsonResponse(status, message) ==
    [kind |-> "json", status |-> status, message |-> message]

\* NextResponse.redirect(url)
RedirectResponse(url) == [kind |-> "redirect", status |-> 307, location |-> url]

\* what the framework answers for a handler that threw
ErrorResponse(error) == [kind |-> "error", status |-> 500, error |-> error]

(***************************************************************************)
(* Preview session controller.  A handler's result is the response and the *)
(* value the session's cookie has after it: draftMode().enable() and       *)
(* .disable() are written to the cookie with the handler's own response,   *)
(* so a handler that throws leaves the cookie as it was.                   *)
(***************************************************************************)
\* `expectedSecret && secret !== expectedSecret`
SecretRejectedMutant(expected, secret) ==
    Truthy(expected) /\ Truthy(secret) /\ secret # expected
SecretRejected(expected, secret) == Truthy(expected) /\ secret # expected

\* `!url || !url.startsWith('/')`
UrlRejectedMutant(url) == ~Truthy(url)
UrlRejected(url) == ~Truthy(url) \/ ~StartsWith(url.v, S_slash)

WithParam(redirectUrl, name, value) ==
    IF Truthy(value)
    THEN [redirectUrl EXCEPT !.query = SearchParamsSet(@, name, value.v)]
    ELSE redirectUrl

EnableGET(query, env, draft) ==
    LET base == RequestUrl(EnablePath, query, <<"url", "secret", "status", "locale">>)
        url == SearchParamsGet(query, "url")
        secret == SearchParamsGet(query, "secret")
        status == SearchParamsGet(query, "status")
        locale == SearchParamsGet(query, "locale")
    IN  IF SecretRejected(env, secret)
        THEN [res |-> JsonResponse(401, "Invalid preview secret"), draft |-> draft]
        ELSE IF UrlRejected(url)
        THEN [res |-> JsonResponse(400, "Missing or invalid url"), draft |-> draft]
        ELSE LET redirectUrl == ParseUrl(url.v, base)
             IN  IF ~redirectUrl.valid
                 THEN [res |-> ErrorResponse("TypeError: Invalid URL"), draft |-> draft]
                 ELSE [res |-> RedirectResponse(
                                   WithParam(WithParam(redirectUrl, "status", status),
                                             "locale", locale)),
                       draft |-> TRUE]

\* a disable that redirects and forgets draftMode().disable()
DisableGETMutant(query, draft) ==
    LET base == RequestUrl(DisablePath, query, <<"url">>)
        given == SearchParamsGet(query, "url")
        url == IF Truthy(given) THEN given.v ELSE S_slash
        redirectUrl == ParseUrl(url, base)
    IN  IF ~redirectUrl.valid
        THEN [res |-> ErrorResponse("TypeError: Invalid URL"), draft |-> draft]
        ELSE [res |-> RedirectResponse(redirectUrl), draft |-> draft]

DisableGET(query, draft) ==
    LET base == RequestUrl(DisablePath, query, <<"url">>)
        given == SearchParamsGet(query, "url")
        url == IF Truthy(given) THEN given.v ELSE S_slash
        redirectUrl == ParseUrl(url, base)
    IN  IF ~redirectUrl.valid
        THEN [res |-> ErrorResponse("TypeError: Invalid URL"), draft |-> draft]
        ELSE [res |-> RedirectResponse(redirectUrl), draft |-> FALSE]


(***************************************************************************)
(* CMS client.  The CMS answers a request with a status and a JSON body,   *)
(* or cannot be reached (fetch rejects).                                   *)
(***************************************************************************)
\* buildQuery: undefined, null and '' values are left out
BuildQueryMutant(params) ==
    LET kept == SelectSeq(params, LAMBDA p : p[2].t \notin {"undefined", "null"})
    IN  [i \in 1..Len(kept) |-> <<kept[i][1], kept[i][2].v>>]
BuildQuery(params) ==
    LET kept == SelectSeq(params,
                    LAMBDA p : ~(p[2].t \in {"undefined", "null"} \/ p[2] = Str(<<>>)))
    IN  [i \in 1..Len(kept) |-> <<kept[i][1], kept[i][2].v>>]

\* the GET fetchStrapi sends: new URL(path, STRAPI_API_URL) with the query
FetchRequest(path, params) == [path |-> path, query |-> BuildQuery(params)]

\* res.ok
ResOkMutant(status) == status >= 200 /\ status <= 300
ResOk(status) == status >= 200 /\ status <= 299

\* new Error(`Strapi request failed (${res.status}): ${body}`)
StrapiError(status, body) ==
    [name |-> "Error", text |-> "Strapi request failed", status |-> status, body |-> body]

\* the outcome of `await fetchStrapi(...)`: the parsed body, or the error thrown
FetchStrapi(answer) ==
    IF answer.kind = "unreachable"
    THEN [ok |-> FALSE, error |-> [name |-> "TypeError", text |-> "fetch failed"]]
    ELSE IF ~ResOk(answer.status)
    THEN [ok |-> FALSE, error |-> StrapiError(answer.status, answer.body)]
    ELSE [ok |-> TRUE, value |-> answer.body]

(***************************************************************************)
(* Media and relation normalizer.                                          *)
(***************************************************************************)
Nullish(x) == x.t \in {"null", "undefined"}

\* `x.k` for a value x that is not null or undefined
Member(x, k) == IF x.t = "object" THEN Prop(x, k) ELSE Undefined

\* `a || b`
Or(a, b) == IF Truthy(a) THEN a ELSE b

\* `x[0]` for a value x that is not null or undefined
Index0(x) ==
    CASE x.t = "array" -> IF x.v = <<>> THEN Undefined ELSE Head(x.v)
      [] x.t = "string" -> IF x.v = <<>> THEN Undefined ELSE Str(<<Head(x.v)>>)
      [] OTHER -> Undefined

FlatMutant(lists) == IF lists = <<>> THEN <<>> ELSE Head(lists)
RECURSIVE Flat(_)
Flat(lists) == IF lists = <<>> THEN <<>> ELSE Head(lists) \o Flat(Tail(lists))

\* `return [record.attributes]`
AttributesItemsMutant(record) == <<record>>
AttributesItems(record) == <<Prop(record, "attributes")>>

\* `'url' in record || 'formats' in record`
IsAsset(record) == In("url", record) \/ In("formats", record)

\* extractMediaItems of the article renderer
RECURSIVE ExtractMediaItemsArticle(_)
ExtractMediaItemsArticle(value) ==
    IF ~Truthy(value) THEN <<>>
    ELSE IF value.t = "array"
    THEN SelectSeq(Flat([i \in 1..Len(value.v) |-> ExtractMediaItemsArticle(value.v[i])]),
                   Truthy)
    ELSE IF value.t = "string" THEN <<Obj([url |-> value])>>
    ELSE IF value.t = "object"
    THEN IF Truthy(Prop(value, "attributes")) THEN AttributesItems(value)
         ELSE IF Truthy(Prop(value, "data"))
         THEN ExtractMediaItemsArticle(Prop(value, "data"))
         ELSE IF IsAsset(value) THEN <<value>>
         ELSE <<>>
    ELSE <<>>

\* extractMediaItems of the about renderer: no string case
RECURSIVE ExtractMediaItemsAbout(_)
ExtractMediaItemsAbout(value) ==
    IF ~Truthy(value) THEN <<>>
    ELSE IF value.t = "array"
    THEN SelectSeq(Flat([i \in 1..Len(value.v) |-> ExtractMediaItemsAbout(value.v[i])]),
                   Truthy)
    ELSE IF value.t = "object"
    THEN IF Truthy(Prop(value, "attributes")) THEN AttributesItems(value)
         ELSE IF Truthy(Prop(value, "data"))
         THEN ExtractMediaItemsAbout(Prop(value, "data"))
         ELSE IF IsAsset(value) THEN <<value>>
         ELSE <<>>
    ELSE <<>>

\* getEntityAttributes
GetEntityAttributes(entity) ==
    IF ~Truthy(entity) \/ entity.t \notin {"object", "array"} THEN Null
    ELSE IF /\ entity.t = "object"
            /\ In("attributes", entity)
            /\ Truthy(Prop(entity, "attributes"))
            /\ Prop(entity, "attributes").t \in {"object", "array"}
    THEN Prop(entity, "attributes")
    ELSE entity

\* getRelation
GetRelationMutant(value) ==
    IF ~Truthy(value) \/ value.t \notin {"object", "array"} THEN Null
    ELSE IF value.t = "object" /\ In("data", value)
    THEN GetEntityAttributes(Prop(value, "data"))
    ELSE GetEntityAttributes(value)
GetRelation(value) ==
    IF ~Truthy(value) \/ value.t \notin {"object", "array"} THEN Null
    ELSE IF value.t = "object" /\ In("data", value)
    THEN LET data == Prop(value, "data")
         IN  IF ~Truthy(data) \/ data.t = "array" THEN Null
             ELSE GetEntityAttributes(data)
    ELSE GetEntityAttributes(value)

\* `process.env.STRAPI_API_URL || 'http://localhost:1337'`
S_httpPrefix == S_http \o <<":", "/", "/">>
S_httpsPrefix == S_http \o <<"s", ":", "/", "/">>
S_localhost == S_httpPrefix \o <<"l", "o", "c", "a", "l", "h", "o", "s", "t", ":", "1", "3", "3", "7">>
STRAPI_API_URL(env) == Or(env, Str(S_localhost)).v

\* withBaseUrl, for the string, null or undefined its signature takes
WithBaseUrlMutant(url, base) == IF ~Truthy(url) THEN Null ELSE Str(base \o url.v)
WithBaseUrl(url, base) ==
    IF ~Truthy(url) THEN Null
    ELSE IF StartsWith(url.v, S_httpPrefix) \/ StartsWith(url.v, S_httpsPrefix) THEN url
    ELSE Str(base \o url.v)

\* getMediaUrl
GetMediaUrl(asset, base) ==
    IF ~Truthy(asset) THEN Null
    ELSE LET url == Or(Or(Member(Member(Member(asset, "formats"), "large"), "url"),
                          Member(Member(Member(asset, "formats"), "medium"), "url")),
                       Member(asset, "url"))
         IN  WithBaseUrl(Or(url, Null), base)

(***************************************************************************)
(* Page renderers.  A render's result keeps the locals the renderer        *)
(* derived, the CMS requests it sent, the answer it got and what           *)
(* fetchStrapi made of it.                                                 *)
(***************************************************************************)
\* searchParams.status / searchParams.locale as the framework hands them to
\* a page: undefined, a string, or an array for a repeated parameter
PageParam(query, name) ==
    CASE Len(query[name]) = 0 -> Undefined
      [] Len(query[name]) = 1 -> Str(Head(query[name]))
      [] OTHER -> Arr([i \in 1..Len(query[name]) |-> Str(query[name][i])])

ArticleStatusMutant(searchParams, isDraft) ==
    IF isDraft THEN Str(S_draft)
    ELSE IF searchParams.status.t = "string" THEN searchParams.status
    ELSE Str(S_published)
ArticleStatus(searchParams, isDraft) ==
    IF searchParams.status.t = "string" THEN searchParams.status
    ELSE IF isDraft THEN Str(S_draft) ELSE Str(S_published)

AboutStatus(searchParams, isDraft) ==
    IF searchParams.status.t = "string" THEN searchParams.status
    ELSE IF isDraft THEN Str(S_draft) ELSE Str(S_published)

CategoryStatus(searchParams, isDraft) ==
    IF searchParams.status.t = "string" THEN searchParams.status
    ELSE IF isDraft THEN Str(S_draft) ELSE Str(S_published)

PageLocale(searchParams) ==
    IF searchParams.locale.t = "string" THEN searchParams.locale ELSE Undefined

StatusLabel(status) == IF status = Str(S_draft) THEN "Draft preview" ELSE "Published"

Rendered(view, fields, locals, request, answer, data) ==
    [kind |-> "page", status |-> 200, view |-> view, fields |-> fields,
     locals |-> locals, fetches |-> <<request>>, answer |-> answer, data |-> data]

\* the render threw: the framework answers its failure page
RenderFailed(error, locals, request, answer, data) ==
    [kind |-> "error", status |-> 500, error |-> error,
     locals |-> locals, fetches |-> <<request>>, answer |-> answer, data |-> data]

CannotRead == [name |-> "TypeError", text |-> "Cannot read properties"]

\* a static text of a view
Text(t) == Str(<<t>>)

\* `x ?? null`
OrNull(x) == IF Nullish(x) THEN Null ELSE x

\* STRAPI_API_URL of a deployment that leaves the variable unset
Base == STRAPI_API_URL(Undefined)

\* the card of a `shared.media` block: the first extracted asset, its address
\* or the placeholder, its alternative text and its caption
MediaCard(assets) ==
    LET asset == IF assets = <<>> THEN Undefined ELSE assets[1]
        url == GetMediaUrl(asset, Base)
    IN  [img |-> IF Truthy(url)
                 THEN [src |-> url,
                       alt |-> Or(Or(Member(asset, "alternativeText"), Member(asset, "name")),
                                  Text("Media"))]
                 ELSE [placeholder |-> Text("Media coming soon")],
         caption |-> IF Truthy(Member(asset, "caption")) THEN Member(asset, "caption")
                     ELSE Null]

\* the images of a `shared.slider` block: one per asset that has an address
SliderImages(assets, alt) ==
    LET images == [i \in 1..Len(assets) |->
                      [src |-> GetMediaUrl(assets[i], Base),
                       alt |-> Or(Or(Member(assets[i], "alternativeText"),
                                     Member(assets[i], "name")), alt)]]
    IN  SelectSeq(images, LAMBDA image : Truthy(image.src))

\* the callback of blocks.map in the article renderer, for a block record
ArticleBlockMutant(block, index) ==
    [key |-> <<"unknown", index>>, cardTag |-> "Unsupported block",
     content |-> [pre |-> block]]
ArticleBlock(block, index) ==
    LET component == Member(block, "__component")
    IN  CASE component = Text("shared.rich-text") ->
               [key |-> <<"rich", index>>, cardTag |-> "Rich text",
                content |-> IF Truthy(Member(block, "body"))
                            THEN [markdown |-> Member(block, "body")]
                            ELSE [muted |-> Text("No text yet.")]]
          [] component = Text("shared.quote") ->
               [key |-> <<"quote", index>>, cardTag |-> "",
                content |-> [p |-> Or(Member(block, "body"), Text("Draft quote goes here.")),
                             cite |-> IF Truthy(Member(block, "title"))
                                      THEN Member(block, "title") ELSE Null]]
          [] component = Text("shared.media") ->
               [key |-> <<"media", index>>, cardTag |-> "Media",
                content |-> MediaCard(ExtractMediaItemsArticle(OrNull(Member(block, "file"))))]
          [] component = Text("shared.slider") ->
               LET assets == ExtractMediaItemsArticle(OrNull(Member(block, "files")))
               IN  [key |-> <<"slider", index>>, cardTag |-> "Gallery",
                    content |-> IF Len(assets) = 0 THEN [muted |-> Text("No images yet.")]
                                ELSE [images |-> SliderImages(assets, Text("Gallery"))]]
          [] OTHER ->
               [key |-> <<"unknown", index>>, cardTag |-> "Unsupported block",
                content |-> [pre |-> block]]

\* renderBlock of the about renderer, for a block record
RenderBlock(block, index) ==
    LET component == Member(block, "__component")
    IN  CASE component = Text("shared.rich-text") ->
               [key |-> <<"rich", index>>, cardTag |-> "Story",
                content |-> IF Truthy(Member(block, "body"))
                            THEN [markdown |-> Member(block, "body")]
                            ELSE [muted |-> Text("No content yet.")]]
          [] component = Text("shared.quote") ->
               [key |-> <<"quote", index>>, cardTag |-> "",
                content |-> [p |-> Or(Member(block, "body"),
                                      Text("Growing together with every season.")),
                             cite |-> IF Truthy(Member(block, "title"))
                                      THEN Member(block, "title") ELSE Null]]
          [] component = Text("shared.media") ->
               [key |-> <<"media", index>>, cardTag |-> "Field snapshot",
                content |-> MediaCard(ExtractMediaItemsAbout(OrNull(Member(block, "file"))))]
          [] component = Text("shared.slider") ->
               LET assets == ExtractMediaItemsAbout(OrNull(Member(block, "files")))
               IN  [key |-> <<"slider", index>>, cardTag |-> "Field gallery",
                    content |-> IF Len(assets) # 0
                                THEN [images |-> SliderImages(assets, Text("Gallery image"))]
                                ELSE [placeholder |-> Text("Gallery coming soon")]]
          [] OTHER ->
               [key |-> <<"block", index>>, cardTag |-> "Content",
                content |-> [muted |-> Text("Unsupported block type.")]]

\* `Array.isArray(x.blocks) ? x.blocks : []`
BlocksOf(x) == IF Member(x, "blocks").t = "array" THEN Member(x, "blocks").v ELSE <<>>

\* the blocks section of the article view
ArticleBlocksMutant(blocks) ==
    IF Len(blocks) = 0 THEN [placeholder |-> Text("No content blocks yet."), cards |-> <<>>]
    ELSE [cards |-> [i \in 1..Len(blocks) |-> ArticleBlock(blocks[Len(blocks) + 1 - i], i - 1)]]
ArticleBlocks(blocks) ==
    IF Len(blocks) = 0 THEN [placeholder |-> Text("No content blocks yet."), cards |-> <<>>]
    ELSE [cards |-> [i \in 1..Len(blocks) |-> ArticleBlock(blocks[i], i - 1)]]

\* the blocks section of the about view
AboutBlocks(blocks) ==
    IF Len(blocks) # 0
    THEN [cards |-> [i \in 1..Len(blocks) |-> RenderBlock(blocks[i], i - 1)]]
    ELSE [placeholder |-> Text("Waiting on content"), cards |-> <<>>]

BlogArticlePage(slug, query, isDraft, answer) ==
    LET searchParams == [status |-> PageParam(query, "status"),
                         locale |-> PageParam(query, "locale")]
        status == ArticleStatus(searchParams, isDraft)
        locale == PageLocale(searchParams)
        locals == [status |-> status, locale |-> locale]
        request == FetchRequest("/api/articles",
                       << <<"filters[slug][$eq]", Str(slug)>>, <<"populate", Str(<<"*">>)>>,
                          <<"status", status>>, <<"locale", locale>> >>)
        data == FetchStrapi(answer)
    IN  IF ~data.ok THEN RenderFailed(data.error, locals, request, answer, data)
        ELSE IF Nullish(data.value) \/ Nullish(Member(data.value, "data"))
        THEN RenderFailed(CannotRead, locals, request, answer, data)
        ELSE LET article == Index0(Member(data.value, "data"))
             IN  IF ~Truthy(article)
                 THEN Rendered("not-found", [slug |-> slug], locals, request, answer, data)
                 ELSE LET articleData == Or(GetEntityAttributes(article), Obj(<<>>))
                      IN  Rendered("article",
                              [title |-> Or(Member(articleData, "title"),
                                            Str(<<"Untitled article">>)),
                               statusLabel |-> StatusLabel(status),
                               blocks |-> ArticleBlocks(BlocksOf(articleData))],
                              locals, request, answer, data)

AboutPage(query, isDraft, answer) ==
    LET searchParams == [status |-> PageParam(query, "status"),
                         locale |-> PageParam(query, "locale")]
        status == AboutStatus(searchParams, isDraft)
        locale == PageLocale(searchParams)
        locals == [status |-> status, locale |-> locale]
        request == FetchRequest("/api/about",
                       << <<"populate", Str(<<"*">>)>>,
                          <<"status", status>>, <<"locale", locale>> >>)
        data == FetchStrapi(answer)
    IN  IF ~data.ok THEN RenderFailed(data.error, locals, request, answer, data)
        ELSE IF Nullish(data.value)
        THEN RenderFailed(CannotRead, locals, request, answer, data)
        ELSE IF ~Truthy(Member(data.value, "data"))
        THEN Rendered("not-found", <<>>, locals, request, answer, data)
        ELSE LET about == Member(data.value, "data")
             IN  Rendered("about",
                     [title |-> Or(Member(about, "title"), Str(<<"About AgroBank">>)),
                      statusLabel |-> StatusLabel(status),
                      blocks |-> AboutBlocks(BlocksOf(about))],
                     locals, request, answer, data)

CategoryPage(slug, query, isDraft, answer) ==
    LET searchParams == [status |-> PageParam(query, "status"),
                         locale |-> PageParam(query, "locale")]
        status == CategoryStatus(searchParams, isDraft)
        locale == PageLocale(searchParams)
        locals == [status |-> status, locale |-> locale]
        request == FetchRequest("/api/categories",
                       << <<"filters[slug][$eq]", Str(slug)>>, <<"populate", Str(<<"*">>)>>,
                          <<"status", status>>, <<"locale", locale>> >>)
        data == FetchStrapi(answer)
    IN  IF ~data.ok THEN RenderFailed(data.error, locals, request, answer, data)
        ELSE IF Nullish(data.value) \/ Nullish(Member(data.value, "data"))
        THEN RenderFailed(CannotRead, locals, request, answer, data)
        ELSE LET category == Index0(Member(data.value, "data"))
             IN  IF ~Truthy(category)
                 THEN Rendered("not-found", [slug |-> slug], locals, request, answer, data)
                 ELSE IF Nullish(Member(category, "attributes"))
                 THEN RenderFailed(CannotRead, locals, request, answer, data)
                 ELSE Rendered("category",
                          [name |-> Or(Member(Member(category, "attributes"), "name"),
                                       Str(<<"Untitled category">>)),
                           status |-> status],
                          locals, request, answer, data)

(***************************************************************************)
(* The session: what it sends and what the CMS answers.                    *)
(***************************************************************************)
\* longest sequence handed to the normalizer
MaxItems == 2
\* deepest nesting of `data` / `attributes` wrappers around a value
MaxDepth == 2

UrlValues == UNION {[1..n -> UrlChars] : n \in 0..MaxUrlLen}
Optional(values) == {<<>>} \cup {<<v>> : v \in values}

SecretValues == {<<"s">>, <<"x">>}
EnvSecrets == {Undefined, Str(<<>>), Str(<<"s">>)}
StatusValues == {<<>>, S_draft}
LocaleValues == {<<"e", "n">>}

PageStatusQueries == {<<>>, <<(<<>>)>>, <<S_draft>>, <<S_published>>,
                      <<S_draft, S_draft>>}
PageLocaleQueries == {<<>>, <<(<<>>)>>, <<(<<"e", "n">>)>>,
                      <<(<<"e", "n">>), (<<"e", "n">>)>>}
Slug == <<"f", "o", "o">>
Pages == {"article", "about", "category"}

S_title == <<"T">>
Entries == {Obj([title |-> Str(S_title)]),
            Obj([attributes |-> Obj([title |-> Str(S_title), name |-> Str(S_title)])]),
            Obj(<<>>)}
CmsData == {Null, Arr(<<>>)} \cup Entries \cup {Arr(<<e>>) : e \in Entries}
CmsBodies == {Obj([data |-> d, meta |-> Obj(<<>>)]) : d \in CmsData}
CmsStatuses == {200, 299, 300, 404, 500}
CmsAnswers ==
    {[kind |-> "unreachable"]}
      \cup {[kind |-> "response", status |-> s, body |-> b] :
               s \in CmsStatuses, b \in CmsBodies}

S_x == <<"/", "x">>
S_y == <<"/", "y">>
TerminalAssets ==
    {Obj([url |-> Str(S_x)]),
     Obj([formats |-> Obj([large |-> Obj([url |-> Str(S_y)])])]),
     Obj([url |-> Null, name |-> Str(S_title)])}
Leaves == TerminalAssets \cup {Obj([name |-> Str(S_title)]), Null, Str(S_x), Num(0), Num(7)}

Wrap(values) ==
    {Obj([data |-> v]) : v \in values} \cup {Obj([attributes |-> v]) : v \in values}
RECURSIVE Wrapped(_)
Wrapped(depth) ==
    IF depth = 0 THEN Leaves
    ELSE Wrapped(depth - 1) \cup Wrap(Wrapped(depth - 1))

Items == Leaves \cup {Obj([attributes |-> Obj([url |-> Str(S_x)])]),
                      Obj([data |-> Obj([url |-> Str(S_y)])]),
                      Arr(<<Obj([url |-> Str(S_y)])>>)}
Lists == {Arr(s) : s \in UNION {[1..n -> Items] : n \in 0..MaxItems}}
MediaInputs == Wrapped(MaxDepth) \cup Lists \cup {Obj([data |-> l]) : l \in Lists}

\* relation fields handed to getRelation: a record, bare or under `attributes`,
\* alone or under `data`; `data` holding null, a sequence or a scalar; scalars
RelationRecords == {Obj([name |-> Str(S_title)]), Obj([title |-> Str(S_title), url |-> Str(S_x)])}
RelationEntities ==
    RelationRecords
      \cup {Obj([attributes |-> r]) : r \in RelationRecords}
      \cup {Obj([attributes |-> Null, name |-> Str(S_title)]),
            Obj([attributes |-> Str(S_x), name |-> Str(S_title)])}
RelationLists ==
    {Arr(s) : s \in UNION {[1..n -> {Obj([name |-> Str(S_title)]),
                                      Obj([attributes |-> Obj([name |-> Str(S_title)])])}] :
                             n \in 0..MaxItems}}
RelationInputs ==
    RelationEntities
      \cup {Obj([data |-> e]) : e \in RelationEntities \cup RelationLists}
      \cup {Obj([data |-> Null]), Obj([data |-> Str(S_x)]), Obj([data |-> Num(0)]),
            Obj([data |-> Null, attributes |-> Obj([name |-> Str(S_title)])])}
      \cup RelationLists
      \cup {Null, Undefined, Str(S_x), Num(7)}

\* assets handed to getMediaUrl: a url that is missing, empty, relative,
\* absolute over http or https, or almost absolute, in each of its three places
S_cms == S_httpPrefix \o <<"c">>
UrlSamples == {Str(<<>>), Str(S_x), Str(S_httpPrefix \o <<"c">> \o S_x),
               Str(S_httpsPrefix \o <<"c">> \o S_y), Str(S_http \o <<":">> \o S_x)}
Put(o, k, v) == [o EXCEPT !.v[k] = v]
Sized(url) == IF url = Absent THEN Absent ELSE Obj([url |-> url])
Asset(large, medium, url) ==
    Put(Put(Obj(<<>>), "formats",
            Put(Put(Obj(<<>>), "large", Sized(large)), "medium", Sized(medium))),
        "url", url)
Assets ==
    {Asset(l, m, u) : l \in UrlSamples \cup {Absent}, m \in UrlSamples \cup {Absent},
                      u \in UrlSamples \cup {Absent}}
      \cup {Put(Obj([formats |-> Null]), "url", u) : u \in UrlSamples \cup {Absent, Null}}
      \cup {Obj([formats |-> Obj([large |-> Null, medium |-> Obj([url |-> Str(S_y)])])])}
      \cup {Null, Undefined}
StrapiEnv == {Undefined, Str(<<>>), Str(S_cms)}

\* content blocks: one of each recognized component, with and without its
\* content, and blocks whose component is unknown, missing or null
MaxBlocks == 2
Component(name, fields) == Put(Obj(fields), "__component", Text(name))
BlockSamples ==
    {Component("shared.rich-text", [body |-> Str(S_title)]),
     Component("shared.quote", [title |-> Str(S_title)]),
     Component("shared.media",
               [file |-> Obj([data |-> Obj([attributes |->
                            Obj([url |-> Str(S_x), name |-> Str(S_title)])])])]),
     Component("shared.slider",
               [files |-> Obj([data |-> Arr(<<Obj([url |-> Str(S_x)]),
                                              Obj([name |-> Str(S_title)]),
                                              Obj([attributes |-> Obj([url |-> Str(S_y)])])>>)])]),
     Component("shared.video", [body |-> Str(S_title)]),
     Obj([title |-> Str(S_title)]),
     Obj([__component |-> Null, body |-> Str(S_title)])}
BlockLists == {Arr(s) : s \in UNION {[1..n -> BlockSamples] : n \in 0..MaxBlocks}}
BlocksValues == BlockLists \cup {Null, Str(S_title), Obj([data |-> Arr(<<>>)])}
BlockEntries ==
    {Obj([title |-> Str(S_title), blocks |-> b]) : b \in BlocksValues}
      \cup {Obj([attributes |-> Obj([title |-> Str(S_title), blocks |-> b])]) :
               b \in BlocksValues}
Found(data) == [kind |-> "response", status |-> 200,
                body |-> Obj([data |-> data, meta |-> Obj(<<>>)])]
\* what the collection endpoint and the single-type endpoint answer
ArticleAnswers == CmsAnswers \cup {Found(Arr(<<e>>)) : e \in BlockEntries}
AboutAnswers == CmsAnswers \cup {Found(e) : e \in BlockEntries}

Idle == req = NoReq /\ call = NoCall

Init ==
    /\ expectedSecret \in EnvSecrets
    /\ isEnabled = FALSE
    /\ req = NoReq
    /\ res = NoRes
    /\ call = NoCall
    /\ lastToggle = "none"
    /\ enabledRun = FALSE

ReceiveEnable ==
    /\ Idle
    /\ \E url \in Optional(UrlValues), secret \in Optional(SecretValues),
          status \in Optional(StatusValues), locale \in Optional(LocaleValues) :
          req' = [route |-> "enable",
                  query |-> [url |-> url, secret |-> secret,
                             status |-> status, locale |-> locale]]
    /\ UNCHANGED <<expectedSecret, isEnabled, res, call, lastToggle, enabledRun>>

ReceiveDisable ==
    /\ Idle
    /\ \E url \in Optional(UrlValues) :
          req' = [route |-> "disable", query |-> [url |-> url]]
    /\ UNCHANGED <<expectedSecret, isEnabled, res, call, lastToggle, enabledRun>>

ReceivePage ==
    /\ Idle
    /\ \E route \in Pages, status \in PageStatusQueries, locale \in PageLocaleQueries :
          req' = IF route = "about"
                 THEN [route |-> route, query |-> [status |-> status, locale |-> locale]]
                 ELSE [route |-> route, slug |-> Slug,
                       query |-> [status |-> status, locale |-> locale]]
    /\ UNCHANGED <<expectedSecret, isEnabled, res, call, lastToggle, enabledRun>>

PreviewEnable ==
    /\ req.route = "enable" /\ res = NoRes
    /\ LET out == EnableGET(req.query, expectedSecret, isEnabled)
       IN  /\ res' = out.res
           /\ isEnabled' = out.draft
           /\ lastToggle' = IF out.res.kind = "redirect" THEN "enable" ELSE lastToggle
           /\ enabledRun' = (enabledRun \/ out.res.kind = "redirect")
    /\ UNCHANGED <<expectedSecret, req, call>>

PreviewDisable ==
    /\ req.route = "disable" /\ res = NoRes
    /\ LET out == DisableGET(req.query, isEnabled)
       IN  /\ res' = out.res
           /\ isEnabled' = out.draft
           /\ lastToggle' = IF out.res.kind = "redirect" THEN "disable" ELSE lastToggle
           /\ enabledRun' = FALSE
    /\ UNCHANGED <<expectedSecret, req, call>>

RenderArticle ==
    /\ req.route = "article" /\ res = NoRes
    /\ \E answer \in ArticleAnswers :
          res' = BlogArticlePage(req.slug, req.query, isEnabled, answer)
    /\ UNCHANGED <<expectedSecret, isEnabled, req, call, lastToggle, enabledRun>>

RenderAbout ==
    /\ req.route = "about" /\ res = NoRes
    /\ \E answer \in AboutAnswers :
          res' = AboutPage(req.query, isEnabled, answer)
    /\ UNCHANGED <<expectedSecret, isEnabled, req, call, lastToggle, enabledRun>>

RenderCategory ==
    /\ req.route = "category" /\ res = NoRes
    /\ \E answer \in CmsAnswers :
          res' = CategoryPage(req.slug, req.query, isEnabled, answer)
    /\ UNCHANGED <<expectedSecret, isEnabled, req, call, lastToggle, enabledRun>>

Deliver ==
    /\ req # NoReq /\ res # NoRes
    /\ req' = NoReq
    /\ res' = NoRes
    /\ UNCHANGED <<expectedSecret, isEnabled, call, lastToggle, enabledRun>>

\* a renderer hands a media field to its copy of extractMediaItems
CallExtractMediaItems ==
    /\ Idle
    /\ \E copy \in {"article", "about"}, value \in MediaInputs :
          call' = [fn |-> "extractMediaItems", copy |-> copy, value |-> value,
                   result |-> IF copy = "article"
                              THEN ExtractMediaItemsArticle(value)
                              ELSE ExtractMediaItemsAbout(value)]
    /\ UNCHANGED <<expectedSecret, isEnabled, req, res, lastToggle, enabledRun>>

\* a renderer resolves the address of an asset it extracted
CallGetMediaUrl ==
    /\ Idle
    /\ \E asset \in Assets, env \in StrapiEnv :
          call' = [fn |-> "getMediaUrl", value |-> asset, env |-> env,
                   result |-> GetMediaUrl(asset, STRAPI_API_URL(env))]
    /\ UNCHANGED <<expectedSecret, isEnabled, req, res, lastToggle, enabledRun>>

\* the article renderer normalizes its author or category field
CallGetRelation ==
    /\ Idle
    /\ \E value \in RelationInputs :
          call' = [fn |-> "getRelation", value |-> value, result |-> GetRelation(value)]
    /\ UNCHANGED <<expectedSecret, isEnabled, req, res, lastToggle, enabledRun>>

Return ==
    /\ call # NoCall
    /\ call' = NoCall
    /\ UNCHANGED <<expectedSecret, isEnabled, req, res, lastToggle, enabledRun>>

Next ==
    \/ ReceiveEnable
    \/ ReceiveDisable
    \/ ReceivePage
    \/ PreviewEnable
    \/ PreviewDisable
    \/ RenderArticle
    \/ RenderAbout
    \/ RenderCategory
    \/ Deliver
    \/ CallExtractMediaItems
    \/ CallGetMediaUrl
    \/ CallGetRelation
    \/ Return

Spec == Init /\ [][Next]_vars

(***************************************************************************)
(* Properties.  A handler step is a step in which a response appears: the  *)
(* unprimed state holds the request and the flag the handler found, the    *)
(* primed state the response and the flag it left.                         *)
(***************************************************************************)
Handling(route) == req.route = route /\ res = NoRes /\ res' # NoRes
Handled(route) == req.route = route /\ res # NoRes
PageHandled == req.route \in Pages /\ res # NoRes

\* PREVIEW_SECRET is set to a non-empty value
SecretConfigured == expectedSecret.t = "string" /\ expectedSecret.v # <<>>
\* the request carries a `secret` equal to PREVIEW_SECRET
SecretMatches == req.query.secret # <<>> /\ Str(Head(req.query.secret)) = expectedSecret
\* the request carries a `url` that begins with '/'
UrlRooted ==
    /\ req.query.url # <<>>
    /\ Head(req.query.url) # <<>>
    /\ Head(Head(req.query.url)) = "/"
\* the request carries a non-empty value for the parameter
Supplied(name) == req.query[name] # <<>> /\ Head(req.query[name]) # <<>>
HasParam(url, name) == \E i \in 1..Len(url.query) : url.query[i][1] = name
ParamOf(url, name) ==
    (CHOOSE i \in 1..Len(url.query) : url.query[i][1] = name)

\* C1: with a shared secret configured, an enable request whose `secret` is
\* absent or different is answered 401 whatever its url, status and locale
\* are, is not redirected, and leaves the preview flag as it was; and a render
\* without a `status` parameter, while no enable has succeeded since the
\* session began or since the last disable, uses `published`.
C1_SecretMismatchIs401 ==
    /\ [][(Handling("enable") /\ SecretConfigured /\ ~SecretMatches)
            => (/\ res'.kind = "json"
                /\ res'.status = 401
                /\ isEnabled' = isEnabled)]_vars
    /\ [](PageHandled /\ lastToggle # "enable" /\ req.query.status = <<>>
            => res.locals.status = Str(S_published))

C1_Witness ==
    /\ Handled("enable") /\ SecretConfigured /\ ~SecretMatches
    /\ req.query.secret # <<>>
    /\ UrlRooted /\ Supplied("status") /\ Supplied("locale")
    /\ res.status = 401
    /\ ~isEnabled

\* C2: an enable request that passes the secret check and whose `url` is
\* missing, empty or not rooted at '/' is answered 400, is not redirected, and
\* leaves the preview flag as it was.
C2_BadUrlIs400 ==
    [][(Handling("enable") /\ (~SecretConfigured \/ SecretMatches) /\ ~UrlRooted)
         => (/\ res'.kind = "json"
             /\ res'.status = 400
             /\ isEnabled' = isEnabled)]_vars

C2_Witness ==
    /\ Handled("enable") /\ SecretConfigured /\ SecretMatches
    /\ req.query.url # <<>> /\ Head(req.query.url) # <<>> /\ ~UrlRooted
    /\ res.status = 400
    /\ ~isEnabled

\* C3: every redirect the enable handler issues targets the origin of the
\* enable request: whatever the `url` parameter is, the Location of a redirect
\* has the request's own scheme, host and port.
C3_EnableRedirectsSameOrigin ==
    (Handled("enable") /\ res.kind = "redirect")
      => SameOrigin(res.location,
                    RequestUrl(EnablePath, req.query,
                               <<"url", "secret", "status", "locale">>))

\* C4: an enable request with a `url` rooted at '/' that passes the secret
\* check (any or no secret when PREVIEW_SECRET is unset) sets the preview flag
\* and is redirected, with `status` and `locale` in the Location's query
\* exactly when they were supplied; and every render without a `status`
\* parameter after it, with no disable request in between, uses `draft`.
C4_EnableSetsFlagAndRedirects ==
    /\ (Handled("enable") /\ UrlRooted /\ (~SecretConfigured \/ SecretMatches))
         => (/\ isEnabled
             /\ res.kind = "redirect"
             /\ HasParam(res.location, "status") = Supplied("status")
             /\ HasParam(res.location, "locale") = Supplied("locale")
             /\ Supplied("status")
                  => res.location.query[ParamOf(res.location, "status")][2]
                       = Head(req.query.status)
             /\ Supplied("locale")
                  => res.location.query[ParamOf(res.location, "locale")][2]
                       = Head(req.query.locale))
    /\ (PageHandled /\ enabledRun /\ req.query.status = <<>>)
         => res.locals.status = Str(S_draft)

\* C5: every disable request, from either flag state, with any or no `url`,
\* clears the preview flag and is answered with a redirect to the supplied
\* `url` ('/' when absent or empty), never with an error.
C5_DisableAlwaysRedirects ==
    Handled("disable")
      => /\ ~isEnabled
         /\ res.kind = "redirect"
         /\ res.status >= 300 /\ res.status <= 399
         /\ res.location =
              ParseUrl(IF req.query.url = <<>> \/ Head(req.query.url) = <<>>
                       THEN S_slash ELSE Head(req.query.url),
                       RequestUrl(DisablePath, req.query, <<"url">>))

\* C6: the preview flag starts DISABLED and is at all times the outcome of the
\* most recent enable or disable that succeeded (ENABLED after an enable,
\* DISABLED after a disable or when there was none); a page render or an
\* enable request that was rejected leaves it as it was.
C6_FlagFollowsLastToggle ==
    /\ [](isEnabled = (lastToggle = "enable"))
    /\ [][((Handling("enable") /\ res'.kind = "json")
             \/ (\E page \in Pages : Handling(page)))
            => isEnabled' = isEnabled]_vars

C6_Witness ==
    /\ Handled("enable") /\ res.kind = "json"
    /\ lastToggle = "enable"
    /\ isEnabled

\* the status a renderer uses when none is given explicitly
DefaultStatus == IF isEnabled THEN Str(S_draft) ELSE Str(S_published)

\* C7 as stated: in each of the three renderers the effective status is the
\* explicit `status` query parameter whenever one is present, whatever the
\* flag is, and otherwise `draft` when the flag is ENABLED and `published`
\* when it is DISABLED.
C7_ExplicitStatusWins ==
    PageHandled
      => IF req.query.status # <<>>
         THEN \E i \in 1..Len(req.query.status) :
                 res.locals.status = Str(req.query.status[i])
         ELSE res.locals.status = DefaultStatus

\* C7 amended: in each of the three renderers the effective status is the
\* `status` query parameter when it is given exactly once, whatever the flag
\* is; when it is absent or repeated the status is `draft` with the flag
\* ENABLED and `published` with it DISABLED.  The rule does not mention the
\* renderer: the three derive the same status from the same (flag, query).
C7_SingleExplicitStatusWins ==
    PageHandled
      => IF Len(req.query.status) = 1
         THEN res.locals.status = Str(Head(req.query.status))
         ELSE res.locals.status = DefaultStatus

C7_Witness ==
    /\ Handled("category")
    /\ req.query.status = <<S_published>>
    /\ isEnabled
    /\ res.locals.status = Str(S_published)

\* the CMS answered in the success range
Answered2xx ==
    res.answer.kind = "response" /\ res.answer.status >= 200 /\ res.answer.status <= 299
\* the body of the answer holds no entry for the renderer
NoEntry ==
    \/ res.answer.body.v["data"] = Null
    \/ req.route # "about" /\ res.answer.body.v["data"] = Arr(<<>>)

\* C8: when the CMS answers successfully with no matching entry, each renderer
\* returns its not-found view and throws nothing: an empty list and a null
\* `data` in the article and category renderers, a null `data` in the about
\* renderer.
C8_NoEntryIsNotFound ==
    (PageHandled /\ Answered2xx /\ NoEntry)
      => res.kind = "page" /\ res.view = "not-found"

\* C9: fetchStrapi returns the parsed body when the response status is in
\* the success range and otherwise fails with an error carrying the status
\* and the body; a renderer whose CMS call failed has sent exactly one CMS
\* request, produced no view, and answers with that error.
C9_FetchFailurePropagates ==
    PageHandled
      => /\ Len(res.fetches) = 1
         /\ Answered2xx => res.data = [ok |-> TRUE, value |-> res.answer.body]
         /\ (res.answer.kind = "response" /\ ~Answered2xx)
              => /\ ~res.data.ok
                 /\ res.data.error.status = res.answer.status
                 /\ res.data.error.body = res.answer.body
         /\ res.answer.kind = "unreachable" => ~res.data.ok
         /\ ~res.data.ok
              => /\ res.kind = "error"
                 /\ res.error = res.data.error
                 /\ "view" \notin DOMAIN res

C9_Witness ==
    /\ Handled("article")
    /\ res.answer.kind = "response" /\ res.answer.status = 500
    /\ res.kind = "error"
    /\ res.error.status = 500

\* a terminal asset record: it carries `url` or `formats`, and neither an
\* `attributes` nor a `data` key
IsTerminalAsset(a) ==
    /\ a.t = "object"
    /\ In("url", a) \/ In("formats", a)
    /\ ~In("attributes", a) /\ ~In("data", a)

\* C10: both copies of extractMediaItems return the one-element sequence [A]
\* for a terminal asset record A presented as {data: {attributes: A}}, as
\* {attributes: A} and as A itself.
C10_WrapperDepthsAgree ==
    call.fn = "extractMediaItems"
      => \A a \in TerminalAssets :
            (/\ IsTerminalAsset(a)
             /\ call.value \in {a, Obj([attributes |-> a]),
                                Obj([data |-> Obj([attributes |-> a])])})
              => call.result = <<a>>

C10_Witness ==
    /\ call.fn = "extractMediaItems"
    /\ call.copy = "about"
    /\ \E a \in TerminalAssets :
          /\ IsTerminalAsset(a)
          /\ call.value = Obj([data |-> Obj([attributes |-> a])])
          /\ call.result = <<a>>

\* the copy of extractMediaItems the call went to, applied to another value
ExtractOf(copy, value) ==
    IF copy = "article" THEN ExtractMediaItemsArticle(value)
    ELSE ExtractMediaItemsAbout(value)

\* C11: for an object input, extractMediaItems returns the extractor's result
\* on the value under `attributes` when the object carries that key, else the
\* extractor's result on the value under `data` when it carries that key, else
\* the object alone when it carries `url` or `formats`, and else nothing.
C11_ObjectPrecedenceAndRecursion ==
    (call.fn = "extractMediaItems" /\ call.value.t = "object")
      => call.result =
            IF In("attributes", call.value)
            THEN ExtractOf(call.copy, Prop(call.value, "attributes"))
            ELSE IF In("data", call.value)
            THEN ExtractOf(call.copy, Prop(call.value, "data"))
            ELSE IF In("url", call.value) \/ In("formats", call.value)
            THEN <<call.value>>
            ELSE <<>>

\* the sequences of a sequence, joined in order
RECURSIVE Concatenation(_)
Concatenation(lists) ==
    IF lists = <<>> THEN <<>> ELSE Head(lists) \o Concatenation(Tail(lists))

\* C12: extractMediaItems returns a sequence for every input value, and for a
\* sequence input that result is the results of its elements, joined in the
\* elements' order.
C12_SequenceIsConcatenation ==
    call.fn = "extractMediaItems"
      => /\ DOMAIN call.result = 1..Len(call.result)
         /\ call.value.t = "array"
              => call.result =
                    Concatenation([i \in 1..Len(call.value.v) |->
                                      ExtractOf(call.copy, call.value.v[i])])
         /\ call.value.t \in {"null", "undefined", "number"} => call.result = <<>>

C12_Witness ==
    /\ call.fn = "extractMediaItems"
    /\ call.value.t = "array"
    /\ Len(call.value.v) = 2
    /\ call.value.v[1].t = "array"
    /\ call.value.v[2].t = "object"
    /\ Len(call.result) = 2
    /\ call.result[1] # call.result[2]

\* a url that is there to be selected
PresentUrl(u) == u.t = "string" /\ u.v # <<>>
LargeUrl(asset) == Member(Member(Member(asset, "formats"), "large"), "url")
MediumUrl(asset) == Member(Member(Member(asset, "formats"), "medium"), "url")
RootUrl(asset) == Member(asset, "url")
SelectedUrl(asset) ==
    IF PresentUrl(LargeUrl(asset)) THEN LargeUrl(asset)
    ELSE IF PresentUrl(MediumUrl(asset)) THEN MediumUrl(asset)
    ELSE RootUrl(asset)
ConfiguredOrigin(env) == IF PresentUrl(env) THEN env.v ELSE S_localhost
IsAbsolute(u) ==
    \/ StartsWith(u.v, <<"h", "t", "t", "p", ":", "/", "/">>)
    \/ StartsWith(u.v, <<"h", "t", "t", "p", "s", ":", "/", "/">>)

\* C13: getMediaUrl returns null for a null or absent asset and for an asset
\* with no url to select; otherwise it selects the large format's url when
\* there is one, else the medium format's, else the root url, and returns the
\* selection unchanged when it starts with http:// or https:// and with the
\* configured CMS origin prepended once when it does not.
C13_MediaUrlSelectionAndOrigin ==
    call.fn = "getMediaUrl"
      => IF Nullish(call.value) \/ ~PresentUrl(SelectedUrl(call.value))
         THEN call.result = Null
         ELSE IF IsAbsolute(SelectedUrl(call.value))
         THEN call.result = SelectedUrl(call.value)
         ELSE call.result = Str(ConfiguredOrigin(call.env) \o SelectedUrl(call.value).v)

C13_Witness ==
    /\ call.fn = "getMediaUrl"
    /\ call.env = Str(S_cms)
    /\ PresentUrl(LargeUrl(call.value)) /\ IsAbsolute(LargeUrl(call.value))
    /\ PresentUrl(MediumUrl(call.value)) /\ ~IsAbsolute(MediumUrl(call.value))
    /\ PresentUrl(RootUrl(call.value)) /\ ~IsAbsolute(RootUrl(call.value))
    /\ call.result = LargeUrl(call.value)

\* a record's `attributes` when that is itself a record, else the record
AttributesOrSelf(r) ==
    IF r.v["attributes"].t = "object" THEN r.v["attributes"] ELSE r

\* C14: getRelation returns null, and so no element of the sequence, whenever
\* the value carries a `data` key holding a sequence of any length or null;
\* when `data` holds a single record it returns that record's `attributes`
\* record if it has one, else the record; and a record without a `data` key
\* yields its `attributes` record if it has one, else itself.
C14_RelationNormalization ==
    (call.fn = "getRelation" /\ call.value.t = "object")
      => IF In("data", call.value)
         THEN /\ call.value.v["data"].t \in {"array", "null"} => call.result = Null
              /\ call.value.v["data"].t = "object"
                   => call.result = AttributesOrSelf(call.value.v["data"])
         ELSE call.result = AttributesOrSelf(call.value)

C14_Witness ==
    /\ call.fn = "getRelation"
    /\ call.value.t = "object"
    /\ In("data", call.value)
    /\ call.value.v["data"].t = "array"
    /\ Len(call.value.v["data"].v) = 2
    /\ call.result = Null

\* the CMS answered successfully with a matching entry record: the first
\* element of `data` for the collection renderers, `data` itself for about
MatchingEntry ==
    /\ Answered2xx
    /\ LET data == res.answer.body.v["data"]
       IN  IF req.route = "about" THEN data.t = "object"
           ELSE data.t = "array" /\ data.v # <<>> /\ Head(data.v).t = "object"
TheEntry ==
    IF req.route = "about" THEN res.answer.body.v["data"]
    ELSE Head(res.answer.body.v["data"].v)
\* the entry's `blocks` as the CMS returned it, read through the entry's
\* `attributes` wrapper in the article renderer
EntryBlocks ==
    LET record == IF req.route = "article" THEN AttributesOrSelf(TheEntry) ELSE TheEntry
    IN  record.v["blocks"]
RecognizedKey(block) ==
    CASE block.v["__component"] = Str(<<"shared.rich-text">>) -> "rich"
      [] block.v["__component"] = Str(<<"shared.quote">>) -> "quote"
      [] block.v["__component"] = Str(<<"shared.media">>) -> "media"
      [] block.v["__component"] = Str(<<"shared.slider">>) -> "slider"
      [] OTHER -> "none"
\* the card is the one the renderer makes for that block at that position
CardOf(card, block, position) ==
    /\ card.key[2] = position - 1
    /\ IF RecognizedKey(block) = "none" THEN card.key[1] \in {"unknown", "block"}
       ELSE card.key[1] = RecognizedKey(block)
    /\ (RecognizedKey(block) = "rich" /\ In("body", block))
          => card.content = [markdown |-> block.v["body"]]
    /\ (RecognizedKey(block) = "quote" /\ In("title", block))
          => card.content.cite = block.v["title"]

\* C15: the article and about renderers render one block card per element of
\* the entry's `blocks` sequence, card i for element i; when `blocks` is
\* absent, null or not a sequence they render no card and the empty-content
\* placeholder, and the render does not fail.
C15_OneCardPerBlockInOrder ==
    (PageHandled /\ req.route \in {"article", "about"} /\ MatchingEntry)
      => /\ res.kind = "page"
         /\ res.view = req.route
         /\ IF EntryBlocks.t = "array"
            THEN /\ Len(res.fields.blocks.cards) = Len(EntryBlocks.v)
                 /\ \A i \in 1..Len(EntryBlocks.v) :
                       CardOf(res.fields.blocks.cards[i], EntryBlocks.v[i], i)
                 /\ EntryBlocks.v # <<>> => "placeholder" \notin DOMAIN res.fields.blocks
            ELSE /\ res.fields.blocks.cards = <<>>
                 /\ "placeholder" \in DOMAIN res.fields.blocks

C15_Witness ==
    /\ PageHandled /\ req.route = "article" /\ MatchingEntry
    /\ EntryBlocks.t = "array"
    /\ Len(EntryBlocks.v) = 2
    /\ RecognizedKey(EntryBlocks.v[1]) = "rich"
    /\ RecognizedKey(EntryBlocks.v[2]) = "media"
    /\ res.kind = "page"
    /\ res.fields.blocks.cards[1].key = <<"rich", 0>>
    /\ res.fields.blocks.cards[2].key = <<"media", 1>>

\* a matching entry whose `blocks` is a sequence came back to a block renderer
BlocksRendered ==
    /\ PageHandled /\ req.route \in {"article", "about"} /\ MatchingEntry
    /\ EntryBlocks.t = "array"

\* C16 as stated: in both block renderers a block whose component is not
\* rich-text, quote, media or slider, a missing or null one included, is
\* rendered as the fallback card carrying the raw dump of the block, the
\* render does not fail, and every other block is rendered by its own rule.
C16_FallbackDumpsBlock ==
    BlocksRendered
      => /\ res.kind = "page"
         /\ \A i \in 1..Len(EntryBlocks.v) :
               IF RecognizedKey(EntryBlocks.v[i]) = "none"
               THEN /\ res.fields.blocks.cards[i].key[1] \in {"unknown", "block"}
                    /\ res.fields.blocks.cards[i].content = [pre |-> EntryBlocks.v[i]]
               ELSE CardOf(res.fields.blocks.cards[i], EntryBlocks.v[i], i)

\* C16: in both block renderers a block whose component is not rich-text,
\* quote, media or slider, a missing or null one included, is rendered as the
\* renderer's fallback card, the render does not fail, and every other block
\* is rendered by its own rule; the article renderer's fallback card carries
\* the raw dump of the block, the about renderer's carries the fixed text
\* "Unsupported block type." and no dump.
C16_FallbackPerRenderer ==
    BlocksRendered
      => /\ res.kind = "page"
         /\ \A i \in 1..Len(EntryBlocks.v) :
               IF RecognizedKey(EntryBlocks.v[i]) = "none"
               THEN IF req.route = "article"
                    THEN /\ res.fields.blocks.cards[i].key = <<"unknown", i - 1>>
                         /\ res.fields.blocks.cards[i].content = [pre |-> EntryBlocks.v[i]]
                    ELSE /\ res.fields.blocks.cards[i].key = <<"block", i - 1>>
                         /\ res.fields.blocks.cards[i].content =
                               [muted |-> Str(<<"Unsupported block type.">>)]
               ELSE CardOf(res.fields.blocks.cards[i], EntryBlocks.v[i], i)

C16_Witness ==
    /\ BlocksRendered /\ req.route = "about"
    /\ Len(EntryBlocks.v) = 2
    /\ ~In("__component", EntryBlocks.v[1])
    /\ RecognizedKey(EntryBlocks.v[2]) = "quote"
    /\ res.fields.blocks.cards[1].key = <<"block", 0>>
    /\ res.fields.blocks.cards[2].key = <<"quote", 1>>

\* the values the render's CMS request carries for a query parameter
Sent(name) ==
    {res.fetches[1].query[i][2] :
        i \in {j \in 1..Len(res.fetches[1].query) : res.fetches[1].query[j][1] = name}}

\* C17 as stated: each render sends one CMS request whose `status` parameter
\* is the effective status the renderer derived, an empty one included, and
\* whose `locale` parameter is there exactly when the page request gave a
\* locale, with that value.
C17_RequestCarriesEffective ==
    PageHandled
      => /\ Len(res.fetches) = 1
         /\ Sent("status") = {res.locals.status.v}
         /\ req.query.locale # <<>> <=> Sent("locale") # {}
         /\ res.locals.locale.t = "string" => Sent("locale") = {res.locals.locale.v}

\* C17: each render sends one CMS request; its `status` parameter is the
\* effective status the renderer derived when that status is not empty and is
\* left out when it is the empty string; its `locale` parameter is the
\* explicit locale when the page request gave one locale that is not empty,
\* and is left out when the locale is absent, empty or repeated.
C17_RequestCarriesNonEmpty ==
    PageHandled
      => /\ Len(res.fetches) = 1
         /\ Sent("status") = IF res.locals.status.v = <<>> THEN {}
                             ELSE {res.locals.status.v}
         /\ Sent("locale") = IF Len(req.query.locale) = 1 /\ Head(req.query.locale) # <<>>
                             THEN {Head(req.query.locale)}
                             ELSE {}
         /\ res.locals.locale = IF Len(req.query.locale) = 1
                                THEN Str(Head(req.query.locale))
                                ELSE Undefined

C17_Witness ==
    /\ PageHandled
    /\ req.query.status = <<(<<>>)>>
    /\ req.query.locale = <<(<<"e", "n">>)>>
    /\ res.locals.status = Str(<<>>)
    /\ Sent("status") = {}
    /\ Sent("locale") = {<<"e", "n">>}

\* C18: when the CMS answers with a matching entry, a flat record or a record
\* wrapped under `attributes`, with any of its fields missing, each of the
\* three renderers completes its own view and the render does not fail.
C18_EntryShapesRender ==
    (PageHandled /\ MatchingEntry)
      => res.kind = "page" /\ res.view = req.route
====
